---------------------------- MODULE Spec2Model ----------------------------
(***************************************************************************)
(* A model of src/js/tracks/text-track.js: the text tracks of one player,  *)
(* their cue collections, the active-cue evaluation against the player's   *)
(* clock, the mode setter and the asynchronous loader.                     *)
(*                                                                         *)
(* Times are in tenths of a second, so that the half-second window of a    *)
(* zero-duration cue (0.5) and a playback position such as 5.3 are         *)
(* integers (5 and 53).                                                    *)
(***************************************************************************)
EXTENDS Naturals, Sequences, FiniteSets

(***************************************************************************)
(* Bounds of the model.                                                    *)
(***************************************************************************)
MaxCues == 3      \* longest backing sequence cues_ an addCue may extend
MaxSubs == 2      \* most registrations of one track's timeupdateHandler

(***************************************************************************)
(* The universe: tracks, cues, player times, option values.                *)
(***************************************************************************)
Tracks == {"A", "B"}

\* player.textTracks(): the player's track list, in list order
textTracks == <<"A", "B">>

\* cue objects the callers of addCue and removeCue hold
UserCues == {"c1", "c2", "c3", "c4"}

\* srcContent of each track's src, as what the parser makes of it: the cue
\* objects it creates and the parsing errors it reports, in order
ParseError == "err"
Payload == [t \in Tracks |-> IF t = "A" THEN <<ParseError, "q1">>
                                        ELSE <<"p2", ParseError, "p1">>]

CueIds == UserCues \cup {"p1", "p2", "q1"}

\* cue['startTime'] and cue['endTime'] of the cue objects, by identity
startTime == [c \in CueIds |->
                 CASE c \in {"c1", "c4", "p1"} -> 0
                   [] c \in {"c2", "p2"} -> 50
                   [] OTHER -> 100]
endTime == [c \in CueIds |->
               CASE c \in {"c1", "c4", "p1"} -> 20
                 [] c \in {"c2", "p2"} -> 50
                 [] OTHER -> 200]

\* values player.currentTime() takes
PlayerTimes == {10, 53, 55, 56, 60, 150}

\* the 0.5 of cue['startTime'] + 0.5
HalfSecond == 5

Modes == {"disabled", "hidden", "showing"}
Kinds == {"subtitles", "captions", "descriptions", "chapters", "metadata"}

\* TextTrackEnum.TextTrackMode[v] is truthy
TextTrackMode(v) == v \in Modes

\* TextTrackEnum.TextTrackKind[v] is truthy
TextTrackKind(v) == v \in Kinds

\* values a caller writes to mode, or passes as options.mode
ModeInputs == Modes \cup {"invalid-value"}

NoCue == "none"

VARIABLES
    opts,         \* [Tracks -> options record] the options each track was built with
    mode,         \* closure variable mode
    kind,         \* closure variable kind
    loaded_,      \* tt.loaded_ (undefined is FALSE)
    cues_,        \* tt.cues_: the backing sequence
    cues,         \* closure variable cues: what the TextTrackCueList shows
    activeCues_,  \* tt.activeCues_
    activeCues,   \* closure variable activeCues: what that TextTrackCueList shows
    changed,      \* closure variable changed
    subs,         \* registrations of timeupdateHandler with player.on
    xhr,          \* the XHR of loadTrack: "none", "pending", "ok", "error"
    timers,       \* pending retry timers of parseCues (window.setTimeout)
    parsed,       \* runs of parser['parse'] and parser['flush'] for the track
    webvtt,       \* typeof window['WebVTT'] === 'function'
    ct,           \* player.currentTime()
    call,         \* the most recent call: [op, t, arg, was], was the mode before a write
    threw,        \* whether it ended in a TypeError
    ret,          \* what it returned: "null", "view" or "none"
    emitted,      \* [Tracks -> [cuechange, modechange]]: notifications it triggered
    logged        \* Lib.log.error calls it made

trackVars == <<mode, kind, loaded_, cues_, cues, activeCues_, activeCues,
               changed, subs>>
loadVars == <<xhr, timers, parsed, webvtt>>
callVars == <<call, threw, ret, emitted, logged>>
vars == <<opts, trackVars, loadVars, ct, callVars>>

Range(s) == {s[i] : i \in 1..Len(s)}

\* the record of a call
Call(op, t, arg) == [op |-> op, t |-> t, arg |-> arg, was |-> "none"]

NoEvents == [t \in Tracks |-> [cuechange |-> 0, modechange |-> 0]]

(***************************************************************************)
(* Construction.                                                           *)
(***************************************************************************)
\* the constructor without the rule for metadata and chapters
InitialModeNoKind(o) == IF TextTrackMode(o.mode) THEN o.mode ELSE "disabled"

\* the mode the constructor ends with
InitialMode(o) ==
    LET m == IF TextTrackMode(o.mode) THEN o.mode ELSE "disabled"
        k == IF TextTrackKind(o.kind) THEN o.kind ELSE "subtitles"
    IN  IF k = "metadata" \/ k = "chapters" THEN "hidden" ELSE m

InitialKind(o) == IF TextTrackKind(o.kind) THEN o.kind ELSE "subtitles"

\* loaded_ set by the constructor whatever the options
InitialLoadedAlways(o) == TRUE

\* loaded_ after construction: set only without options.src
InitialLoaded(o) == ~o.src

\* the state after new TextTrack(o[t]) for every track t
Constructed(o) ==
    /\ opts = o
    /\ mode = [t \in Tracks |-> InitialMode(o[t])]
    /\ kind = [t \in Tracks |-> InitialKind(o[t])]
    /\ loaded_ = [t \in Tracks |-> InitialLoaded(o[t])]
    /\ cues_ = [t \in Tracks |-> << >>]
    /\ cues = [t \in Tracks |-> << >>]
    /\ activeCues_ = [t \in Tracks |-> << >>]
    /\ activeCues = [t \in Tracks |-> << >>]
    /\ changed = [t \in Tracks |-> FALSE]
    /\ subs = [t \in Tracks |-> IF InitialMode(o[t]) # "disabled" THEN 1 ELSE 0]
    /\ xhr = [t \in Tracks |-> IF o[t].src THEN "pending" ELSE "none"]
    /\ timers = [t \in Tracks |-> 0]
    /\ parsed = [t \in Tracks |-> 0]
    /\ call = Call("new", "A", NoCue)
    /\ threw = FALSE
    /\ ret = "none"
    /\ emitted = NoEvents
    /\ logged = 0

(***************************************************************************)
(* removeCue and addCue.  A store is the part of the state they read and   *)
(* write: [cues_, cues, loaded_, threw].                                   *)
(***************************************************************************)
\* splice(i) without a count: everything from index i on goes
SpliceToEnd(s, i) == SubSeq(s, 1, i)

\* Array.prototype.splice(i, 1), i counted from 0
Splice(s, i) == SubSeq(s, 1, i) \o SubSeq(s, i + 2, Len(s))

\* the loop of removeCue from index i on, with l the length read before the loop;
\* an index past the end reads undefined, which is no cue
RECURSIVE ScanRemove(_, _, _, _, _)
ScanRemove(s, x, i, l, removed) ==
    IF i >= l THEN [s |-> s, removed |-> removed]
    ELSE IF i < Len(s) /\ s[i + 1] = x
         THEN ScanRemove(Splice(s, i), x, i + 1, l, TRUE)
         ELSE ScanRemove(s, x, i + 1, l, removed)

\* removeCue refreshing the view whether or not it removed anything
removeCueAlwaysRefresh(st, t, x) ==
    LET r == ScanRemove(st.cues_[t], x, 0, Len(st.cues_[t]), FALSE)
    IN  IF st.loaded_[t]
        THEN [st EXCEPT !.cues_[t] = r.s, !.cues[t] = r.s]
        ELSE [st EXCEPT !.cues_[t] = r.s, !.threw = TRUE]

\* track t's removeCue(x) applied to store st
removeCue(st, t, x) ==
    LET r == ScanRemove(st.cues_[t], x, 0, Len(st.cues_[t]), FALSE)
    IN  IF ~r.removed THEN st
        ELSE IF st.loaded_[t]
             THEN [st EXCEPT !.cues_[t] = r.s, !.cues[t] = r.s]
             \* this.cues is null: setCues_ of null is a TypeError
             ELSE [st EXCEPT !.cues_[t] = r.s, !.threw = TRUE]

\* the loop of addCue over tracks[i..]: a TypeError in a sibling ends the call
RECURSIVE RemoveFromSiblings(_, _, _, _)
RemoveFromSiblings(st, t, x, i) ==
    IF i > Len(textTracks) \/ st.threw THEN st
    ELSE IF textTracks[i] # t
         THEN RemoveFromSiblings(removeCue(st, textTracks[i], x), t, x, i + 1)
         ELSE RemoveFromSiblings(st, t, x, i + 1)

\* track t's addCue(x) applied to store st
addCue(st, t, x) ==
    LET s1 == RemoveFromSiblings(st, t, x, 1)
        pushed == Append(s1.cues_[t], x)
    IN  IF s1.threw THEN s1
        ELSE IF s1.loaded_[t]
             THEN [s1 EXCEPT !.cues_[t] = pushed, !.cues[t] = pushed]
             \* this['cues'] is null: setCues_ of null is a TypeError
             ELSE [s1 EXCEPT !.cues_[t] = pushed, !.threw = TRUE]

\* the store of the current state
Store == [cues_ |-> cues_, cues |-> cues, loaded_ |-> loaded_, threw |-> FALSE]

\* the cue objects that exist: the callers' and those a parser has created
Existing ==
    UserCues \cup UNION {Range(Payload[t]) \ {ParseError} :
                            t \in {u \in Tracks : parsed[u] > 0}}

AddCue(t, x) ==
    /\ x \in Existing
    /\ Len(cues_[t]) < MaxCues
    /\ LET st == addCue(Store, t, x)
       IN  /\ cues_' = st.cues_
           /\ cues' = st.cues
           /\ threw' = st.threw
    /\ call' = Call("addCue", t, x)
    /\ ret' = "none"
    /\ emitted' = NoEvents
    /\ logged' = 0
    /\ UNCHANGED <<opts, mode, kind, loaded_, activeCues_, activeCues, changed,
                   subs, loadVars, ct>>

RemoveCue(t, x) ==
    /\ x \in Existing
    /\ LET st == removeCue(Store, t, x)
       IN  /\ cues_' = st.cues_
           /\ cues' = st.cues
           /\ threw' = st.threw
    /\ call' = Call("removeCue", t, x)
    /\ ret' = "none"
    /\ emitted' = NoEvents
    /\ logged' = 0
    /\ UNCHANGED <<opts, mode, kind, loaded_, activeCues_, activeCues, changed,
                   subs, loadVars, ct>>

(***************************************************************************)
(* The loader.                                                             *)
(***************************************************************************)
\* a parse that ends at the first parsing error
RECURSIVE FeedParserStopOnError(_, _, _, _)
FeedParserStopOnError(st, t, items, i) ==
    IF i > Len(items) \/ items[i] = ParseError THEN st
    ELSE FeedParserStopOnError(addCue(st, t, items[i]), t, items, i + 1)

\* parser['parse'](srcContent) and parser['flush'](): oncue is addCue on the
\* track, onparsingerror logs and goes on
RECURSIVE FeedParser(_, _, _, _)
FeedParser(st, t, items, i) ==
    IF i > Len(items) THEN st
    ELSE IF items[i] = ParseError
         THEN FeedParser(st, t, items, i + 1)
         ELSE FeedParser(addCue(st, t, items[i]), t, items, i + 1)

\* the cues and the errors of a payload
CuesOf(items) == SelectSeq(items, LAMBDA e : e # ParseError)
ErrorsOf(items) == SelectSeq(items, LAMBDA e : e = ParseError)

\* parseCues arming a retry timer after the parse too
parseCuesKeepsPolling(st, t) ==
    IF ~webvtt
    THEN [st |-> st, timers |-> 1, parsed |-> 0, logged |-> 0]
    ELSE [st |-> FeedParser(st, t, Payload[t], 1), timers |-> 1, parsed |-> 1,
          logged |-> Len(ErrorsOf(Payload[t]))]

\* parseCues(srcContent, track) on store st: a retry timer while WebVTT is
\* missing, the parse otherwise
parseCues(st, t) ==
    IF ~webvtt
    THEN [st |-> st, timers |-> 1, parsed |-> 0, logged |-> 0]
    ELSE [st |-> FeedParser(st, t, Payload[t], 1), timers |-> 0, parsed |-> 1,
          logged |-> Len(ErrorsOf(Payload[t]))]

\* room in cues_ for what the parser will add
RoomToParse(t) == Len(cues_[t]) + Len(CuesOf(Payload[t])) <= MaxCues

\* the XHR callback going on to load and parse after logging err
loadTrackNoReturn(t, err) ==
    LET r == parseCues([Store EXCEPT !.loaded_[t] = TRUE], t)
    IN  /\ loaded_' = r.st.loaded_
        /\ cues_' = r.st.cues_
        /\ cues' = r.st.cues
        /\ threw' = r.st.threw
        /\ timers' = [timers EXCEPT ![t] = @ + r.timers]
        /\ parsed' = [parsed EXCEPT ![t] = @ + r.parsed]
        /\ logged' = (IF err THEN 1 ELSE 0) + r.logged

\* the XHR callback of loadTrack: err is whether the transport failed
loadTrack(t, err) ==
    IF err
    THEN /\ logged' = 1
         /\ threw' = FALSE
         /\ UNCHANGED <<loaded_, cues_, cues, timers, parsed>>
    ELSE LET r == parseCues([Store EXCEPT !.loaded_[t] = TRUE], t)
         IN  /\ loaded_' = r.st.loaded_
             /\ cues_' = r.st.cues_
             /\ cues' = r.st.cues
             /\ threw' = r.st.threw
             /\ timers' = [timers EXCEPT ![t] = @ + r.timers]
             /\ parsed' = [parsed EXCEPT ![t] = @ + r.parsed]
             /\ logged' = r.logged

\* the transport fails
FetchError(t) ==
    /\ xhr[t] = "pending"
    /\ xhr' = [xhr EXCEPT ![t] = "error"]
    /\ loadTrack(t, TRUE)
    /\ call' = Call("fetchError", t, NoCue)
    /\ ret' = "none"
    /\ emitted' = NoEvents
    /\ UNCHANGED <<opts, mode, kind, activeCues_, activeCues, changed, subs,
                   webvtt, ct>>

\* the transport delivers the file
FetchOk(t) ==
    /\ xhr[t] = "pending"
    /\ webvtt => RoomToParse(t)
    /\ xhr' = [xhr EXCEPT ![t] = "ok"]
    /\ loadTrack(t, FALSE)
    /\ call' = Call("fetchOk", t, NoCue)
    /\ ret' = "none"
    /\ emitted' = NoEvents
    /\ UNCHANGED <<opts, mode, kind, activeCues_, activeCues, changed, subs,
                   webvtt, ct>>

\* a retry timer of parseCues fires: the timer is spent and parseCues runs
Poll(t) ==
    /\ timers[t] > 0
    /\ webvtt => RoomToParse(t)
    /\ LET r == parseCues(Store, t)
       IN  /\ cues_' = r.st.cues_
           /\ cues' = r.st.cues
           /\ threw' = r.st.threw
           /\ timers' = [timers EXCEPT ![t] = @ - 1 + r.timers]
           /\ parsed' = [parsed EXCEPT ![t] = @ + r.parsed]
           /\ logged' = r.logged
    /\ call' = Call("poll", t, NoCue)
    /\ ret' = "none"
    /\ emitted' = NoEvents
    /\ UNCHANGED <<opts, mode, kind, loaded_, activeCues_, activeCues, changed,
                   subs, xhr, webvtt, ct>>

\* the vtt.js script finishes loading: window['WebVTT'] becomes a function
WebVTTLoaded ==
    /\ ~webvtt
    /\ webvtt' = TRUE
    /\ call' = Call("webvtt", "A", NoCue)
    /\ threw' = FALSE
    /\ ret' = "none"
    /\ emitted' = NoEvents
    /\ logged' = 0
    /\ UNCHANGED <<opts, trackVars, xhr, timers, parsed, ct>>

(***************************************************************************)
(* The mode setter.                                                        *)
(***************************************************************************)
\* the setter without the test of the value
setModeUnchecked(t, v) ==
    /\ mode' = [mode EXCEPT ![t] = v]
    /\ subs' = [subs EXCEPT ![t] = IF v = "showing" THEN @ + 1 ELSE @]
    /\ emitted' = [NoEvents EXCEPT ![t].modechange = 1]

\* the setter returning early when the value is the current mode
setModeOnlyOnChange(t, v) ==
    IF ~TextTrackMode(v) \/ v = mode[t]
    THEN /\ UNCHANGED <<mode, subs>>
         /\ emitted' = NoEvents
    ELSE /\ mode' = [mode EXCEPT ![t] = v]
         /\ subs' = [subs EXCEPT ![t] = IF v = "showing" THEN @ + 1 ELSE @]
         /\ emitted' = [NoEvents EXCEPT ![t].modechange = 1]

\* the setter subscribing for every mode but disabled, as the constructor does
setModeSubscribesUnlessDisabled(t, v) ==
    IF ~TextTrackMode(v)
    THEN /\ UNCHANGED <<mode, subs>>
         /\ emitted' = NoEvents
    ELSE /\ mode' = [mode EXCEPT ![t] = v]
         /\ subs' = [subs EXCEPT ![t] = IF v # "disabled" THEN @ + 1 ELSE @]
         /\ emitted' = [NoEvents EXCEPT ![t].modechange = 1]

\* track.mode = v
setMode(t, v) ==
    IF ~TextTrackMode(v)
    THEN /\ UNCHANGED <<mode, subs>>
         /\ emitted' = NoEvents
    ELSE /\ mode' = [mode EXCEPT ![t] = v]
         /\ subs' = [subs EXCEPT ![t] = IF v = "showing" THEN @ + 1 ELSE @]
         /\ emitted' = [NoEvents EXCEPT ![t].modechange = 1]

SetMode(t, v) ==
    /\ v = "showing" => subs[t] < MaxSubs
    /\ setMode(t, v)
    /\ call' = [Call("setMode", t, v) EXCEPT !.was = mode[t]]
    /\ threw' = FALSE
    /\ ret' = "none"
    /\ logged' = 0
    /\ UNCHANGED <<opts, kind, loaded_, cues_, cues, activeCues_, activeCues,
                   changed, loadVars, ct>>

(***************************************************************************)
(* The cues and activeCues getters.                                        *)
(***************************************************************************)
\* the cues getter: null until loaded_, the view after
getCues(t) == IF ~loaded_[t] THEN "null" ELSE "view"

\* the test without the branch for cues of no duration
IsActiveNoWindow(c, now) == startTime[c] <= now /\ endTime[c] >= now

\* the test of the activeCues loop on one cue at time now
IsActive(c, now) ==
    \/ startTime[c] <= now /\ endTime[c] >= now
    \/ startTime[c] = endTime[c] /\ startTime[c] <= now
                                 /\ startTime[c] + HalfSecond >= now

\* the array active the loop builds from this['cues']
ActiveAt(view, now) == SelectSeq(view, LAMBDA c : IsActive(c, now))

\* changed as the getter sets it from active and this.activeCues_
Differs(active, previous) ==
    IF Len(active) # Len(previous) THEN TRUE
    ELSE \E i \in 1..Len(active) : active[i] \notin Range(previous)

\* the getter refreshing the view without storing active in this.activeCues_
getActiveCuesNoStore(t, tr) ==
    IF ~loaded_[t] THEN [tr EXCEPT !.ret = "null"]
    ELSE IF Len(cues[t]) = 0 THEN [tr EXCEPT !.ret = "view"]
    ELSE LET active == ActiveAt(cues[t], ct)
         IN  [tr EXCEPT !.activeCues = active,
                        !.changed = Differs(active, tr.activeCues_),
                        !.ret = "view"]

\* the activeCues getter on track t whose activeCues_ and changed are in tr:
\* what it returns and what it leaves behind
getActiveCues(t, tr) ==
    IF ~loaded_[t] THEN [tr EXCEPT !.ret = "null"]
    ELSE IF Len(cues[t]) = 0 THEN [tr EXCEPT !.ret = "view"]
    ELSE LET active == ActiveAt(cues[t], ct)
         IN  [tr EXCEPT !.activeCues_ = active,
                        !.activeCues = active,
                        !.changed = Differs(active, tr.activeCues_),
                        !.ret = "view"]

\* track t's part of the state the getter and the handler work on
TrackRec(t) == [activeCues_ |-> activeCues_[t], activeCues |-> activeCues[t],
                changed |-> changed[t], ret |-> "none", cuechange |-> 0]

\* a read of track.activeCues by any caller
ReadActiveCues(t) ==
    /\ LET r == getActiveCues(t, TrackRec(t))
       IN  /\ activeCues_' = [activeCues_ EXCEPT ![t] = r.activeCues_]
           /\ activeCues' = [activeCues EXCEPT ![t] = r.activeCues]
           /\ changed' = [changed EXCEPT ![t] = r.changed]
           /\ ret' = r.ret
    /\ call' = Call("activeCues", t, NoCue)
    /\ threw' = FALSE
    /\ emitted' = NoEvents
    /\ logged' = 0
    /\ UNCHANGED <<opts, mode, kind, loaded_, cues_, cues, subs, loadVars, ct>>

\* the playback position moves
SetTime(v) ==
    /\ v # ct
    /\ ct' = v
    /\ call' = Call("setTime", "A", NoCue)
    /\ threw' = FALSE
    /\ ret' = "none"
    /\ emitted' = NoEvents
    /\ logged' = 0
    /\ UNCHANGED <<opts, trackVars, loadVars>>

(***************************************************************************)
(* The time-update handler.                                                *)
(***************************************************************************)
\* the handler leaving changed set after the notification
timeupdateHandlerNoClear(t, tr) ==
    LET r == getActiveCues(t, tr)
    IN  IF r.changed THEN [r EXCEPT !.cuechange = @ + 1] ELSE r

\* one run of timeupdateHandler
timeupdateHandler(t, tr) ==
    LET r == getActiveCues(t, tr)
    IN  IF r.changed
        THEN [r EXCEPT !.cuechange = @ + 1, !.changed = FALSE]
        ELSE r

\* n runs of the handler, one for each registration
RECURSIVE RunHandlers(_, _, _)
RunHandlers(t, tr, n) ==
    IF n = 0 THEN tr ELSE RunHandlers(t, timeupdateHandler(t, tr), n - 1)

\* the player triggers timeupdate: every registered handler runs
Tick ==
    /\ LET r == [t \in Tracks |-> RunHandlers(t, TrackRec(t), subs[t])]
       IN  /\ activeCues_' = [t \in Tracks |-> r[t].activeCues_]
           /\ activeCues' = [t \in Tracks |-> r[t].activeCues]
           /\ changed' = [t \in Tracks |-> r[t].changed]
           /\ emitted' = [t \in Tracks |->
                             [cuechange |-> r[t].cuechange, modechange |-> 0]]
    /\ call' = Call("timeupdate", "A", NoCue)
    /\ threw' = FALSE
    /\ ret' = "none"
    /\ logged' = 0
    /\ UNCHANGED <<opts, mode, kind, loaded_, cues_, cues, subs, loadVars, ct>>

(***************************************************************************)
(* Specifications.  Each starts from the state after the construction of   *)
(* the two tracks and lets the environment make a set of calls.            *)
(***************************************************************************)
Plain == [mode |-> "none", kind |-> "subtitles", src |-> FALSE]

\* each track built with or without src
InitCues ==
    /\ \E s \in [Tracks -> BOOLEAN] :
           Constructed([t \in Tracks |-> [Plain EXCEPT !.src = s[t]]])
    /\ webvtt \in BOOLEAN
    /\ ct = 10

\* the cues passed to addCue and removeCue under this specification
CallCues == {"c1", "c2"}

\* cue calls and the loader
NextCues ==
    \/ \E t \in Tracks, x \in CallCues : AddCue(t, x)
    \/ \E t \in Tracks, x \in CallCues : RemoveCue(t, x)
    \/ \E t \in Tracks : FetchOk(t)
    \/ \E t \in Tracks : FetchError(t)
    \/ \E t \in Tracks : Poll(t)
    \/ WebVTTLoaded

Spec == InitCues /\ [][NextCues]_vars

\* each track built without src, with any mode option and one of three kinds
InitMode ==
    /\ \E m \in [Tracks -> ModeInputs],
          k \in [Tracks -> {"subtitles", "chapters", "metadata"}] :
           Constructed([t \in Tracks |-> [mode |-> m[t], kind |-> k[t], src |-> FALSE]])
    /\ webvtt = TRUE
    /\ ct = 10

\* writes to mode
NextMode ==
    \E t \in Tracks, v \in ModeInputs : SetMode(t, v)

SpecMode == InitMode /\ [][NextMode]_vars

\* track A built with or without src, track B without
InitActive ==
    /\ \E s \in BOOLEAN :
           Constructed([t \in Tracks |-> IF t = "A" THEN [Plain EXCEPT !.src = s]
                                                    ELSE Plain])
    /\ webvtt = TRUE
    /\ ct \in PlayerTimes

\* the cues of the calls of this specification
ActiveCallCues == {"c1", "c2", "c3"}

\* cue calls on track A (B is the empty sibling addCue scans), its fetch, the
\* clock and reads of activeCues
NextActive ==
    \/ FetchOk("A")
    \/ \E x \in ActiveCallCues : AddCue("A", x)
    \/ \E x \in ActiveCallCues : RemoveCue("A", x)
    \/ \E v \in PlayerTimes : SetTime(v)
    \/ \E t \in Tracks : ReadActiveCues(t)

SpecActive == InitActive /\ [][NextActive]_vars

\* track A built disabled or showing, track B as the sibling; no src
InitTick ==
    /\ \E m \in {"disabled", "showing"} :
           Constructed([t \in Tracks |-> IF t = "A" THEN [Plain EXCEPT !.mode = m]
                                                    ELSE Plain])
    /\ webvtt = TRUE
    /\ ct = 10

\* the cues and the times of this specification: two cues shown together at
\* 1 and neither at 6
TickCues == {"c1", "c4"}
TickTimes == {10, 60}

\* cue calls, mode writes and reads on track A, the clock and the timeupdate
\* event
NextTick ==
    \/ \E x \in TickCues : AddCue("A", x)
    \/ \E x \in TickCues : RemoveCue("A", x)
    \/ \E v \in TickTimes : SetTime(v)
    \/ \E v \in ModeInputs : SetMode("A", v)
    \/ ReadActiveCues("A")
    \/ Tick

SpecTick == InitTick /\ [][NextTick]_vars

(***************************************************************************)
(* Cue membership: addCue and removeCue.                                   *)
(***************************************************************************)
\* the tracks whose backing sequence holds cue c
Owners(c) == {t \in Tracks : c \in Range(cues_[t])}

\* C1: in every state reached by addCue and removeCue calls on the player's
\* tracks, each cue is in the backing sequence of at most one track.
C1_CueInAtMostOneTrack ==
    \A c \in CueIds : Cardinality(Owners(c)) <= 1

\* C2: for distinct loaded tracks A and B of the player's list, B.addCue(c)
\* followed by A.addCue(c) leaves c the last element of A's cues and outside
\* B's cues.
C2_AddAfterSiblingAdd ==
    [][\A a \in Tracks, b \in Tracks, c \in CueIds :
          ( /\ a # b
            /\ loaded_[a] /\ loaded_[b]
            /\ call = Call("addCue", b, c)
            /\ call' = Call("addCue", a, c) )
          => ( /\ cues'[a] # << >>
               /\ cues'[a][Len(cues'[a])] = c
               /\ c \notin Range(cues'[b])
               /\ c \notin Range(cues_'[b]) )]_vars

\* C3: after removeCue(c) returns, c occurs nowhere in the track's backing
\* sequence, also when it occurred several times and at adjacent positions.
C3_RemoveCueRemovesEveryEntry ==
    call.op = "removeCue" => call.arg \notin Range(cues_[call.t])

\* C4: removeCue(c) on a track whose backing sequence does not hold c leaves
\* the backing sequence and the cue-list view as they were, raises no error
\* and emits no notification.
C4_RemoveAbsentCueIsNoOp ==
    [][\A t \in Tracks, c \in CueIds :
          ( /\ call' = Call("removeCue", t, c)
            /\ c \notin Range(cues_[t]) )
          => ( /\ cues_' = cues_
               /\ cues' = cues
               /\ ~threw'
               /\ emitted' = NoEvents )]_vars

\* removeCue of a cue the track does not hold has returned normally on a
\* track that holds other cues and is not loaded
C4_Witness ==
    /\ call.op = "removeCue"
    /\ ~loaded_[call.t]
    /\ cues_[call.t] # << >>
    /\ call.arg \notin Range(cues_[call.t])
    /\ ~threw

(***************************************************************************)
(* Loading.                                                                *)
(***************************************************************************)
\* what a read of track t's activeCues returns in the current state
ActiveCuesYield(t) == getActiveCues(t, TrackRec(t)).ret

\* C7: on a track built with src, cues and activeCues yield null in every
\* state before the fetch callback has been delivered with success and a view
\* in every state after; on a track built without src they yield a view from
\* construction on.
C7_AccessorsFollowTheFetch ==
    \A t \in Tracks :
        /\ (opts[t].src /\ xhr[t] # "ok")
              => (getCues(t) = "null" /\ ActiveCuesYield(t) = "null")
        /\ (opts[t].src /\ xhr[t] = "ok")
              => (getCues(t) = "view" /\ ActiveCuesYield(t) = "view")
        /\ ~opts[t].src
              => (getCues(t) = "view" /\ ActiveCuesYield(t) = "view")

\* a track built with src whose fetch has succeeded after an addCue made
\* while it was pending, beside a track built without src
C7_Witness ==
    /\ opts["B"].src /\ xhr["B"] = "ok" /\ getCues("B") = "view"
    /\ Len(cues["B"]) < Len(cues_["B"])
    /\ ~opts["A"].src /\ getCues("A") = "view"

\* C8: when the fetch callback is delivered with an error, the error is
\* logged and the parser is not invoked; from then on loaded_ is false, cues
\* and activeCues yield null, and no fetch is pending again.
C8_FetchErrorIsFinal ==
    /\ [](\A t \in Tracks :
            /\ (call.op = "fetchError" /\ call.t = t) => logged = 1
            /\ xhr[t] = "error"
                  => ( /\ ~loaded_[t]
                       /\ timers[t] = 0
                       /\ parsed[t] = 0
                       /\ getCues(t) = "null"
                       /\ ActiveCuesYield(t) = "null" ))
    /\ [][\A t \in Tracks : xhr[t] = "error" => xhr'[t] = "error"]_vars

\* calls went on after a failed fetch
C8_Witness ==
    /\ xhr["B"] = "error"
    /\ call.op \in {"addCue", "removeCue"}
    /\ call.t = "B"
    /\ cues_["B"] # << >>

(***************************************************************************)
(* The mode.                                                               *)
(***************************************************************************)
\* C5: a write to mode of a value that is not disabled, hidden or showing
\* leaves mode as it was, emits nothing, adds no time-update subscription and
\* raises no error.
C5_InvalidModeWriteIgnored ==
    [][\A t \in Tracks :
          ( /\ call'.op = "setMode" /\ call'.t = t
            /\ call'.arg \notin {"disabled", "hidden", "showing"} )
          => ( /\ mode' = mode
               /\ subs' = subs
               /\ emitted' = NoEvents
               /\ ~threw' )]_vars

\* an invalid value was written to a track that is showing
C5_Witness ==
    /\ call.op = "setMode"
    /\ call.arg = "invalid-value"
    /\ call.was = "showing"
    /\ mode[call.t] = "showing"

\* C6: every write to mode of disabled, hidden or showing sets mode to the
\* value and emits modechange exactly once, also when the value is the current
\* mode; a second write of showing in succession does so again, with no error.
C6_ValidModeWriteNotifies ==
    [][\A t \in Tracks :
          ( /\ call'.op = "setMode" /\ call'.t = t
            /\ call'.arg \in {"disabled", "hidden", "showing"} )
          => ( /\ mode'[t] = call'.arg
               /\ emitted' = [NoEvents EXCEPT ![t].modechange = 1]
               /\ ~threw' )]_vars

\* showing was written to a track built disabled that was showing already:
\* the second write of showing
C6_Witness ==
    /\ call.op = "setMode"
    /\ call.arg = "showing"
    /\ call.was = "showing"
    /\ InitialMode(opts[call.t]) = "disabled"
    /\ subs[call.t] = 2
    /\ emitted[call.t].modechange = 1

(***************************************************************************)
(* Active cues.                                                            *)
(***************************************************************************)
\* the cues of view that the rule of the specification makes active at now:
\* startTime <= now <= endTime, or no duration and now within half a second
ExpectedActive(view, now) ==
    SelectSeq(view, LAMBDA c :
        \/ (startTime[c] <= now /\ now <= endTime[c])
        \/ (startTime[c] = endTime[c] /\ startTime[c] <= now
                                      /\ now <= startTime[c] + 5))

\* C9: on a loaded track with at least one cue, a read of activeCues at time
\* t returns exactly the cues with startTime <= t <= endTime, or of no
\* duration with startTime <= t <= startTime + 0.5, in their order in cues;
\* cues [{0,2},{5,5},{10,20}] give [{0,2}] at 1, [{5,5}] at 5.3, [] at 6 and
\* [{10,20}] at 15.
C9_ActiveCuesAtTime ==
    \A t \in Tracks :
        (call.op = "activeCues" /\ call.t = t /\ loaded_[t] /\ Len(cues[t]) >= 1)
        => ( /\ ret = "view"
             /\ activeCues[t] = ExpectedActive(cues[t], ct)
             /\ cues[t] = <<"c1", "c2", "c3">> =>
                   /\ ct = 10 => activeCues[t] = <<"c1">>
                   /\ ct = 53 => activeCues[t] = <<"c2">>
                   /\ ct = 60 => activeCues[t] = << >>
                   /\ ct = 150 => activeCues[t] = <<"c3">> )

\* activeCues was read at 5.3 on the track holding the three cues
C9_Witness ==
    /\ call.op = "activeCues"
    /\ call.t = "A"
    /\ cues["A"] = <<"c1", "c2", "c3">>
    /\ ct = 53
    /\ activeCues["A"] = <<"c2">>

\* C10: on a loaded track, after any addCue, removeCue, time change and
\* earlier read, the view a read of activeCues returns holds exactly the
\* current cues that are active at the current time, so none when every cue has
\* been removed.
C10_ActiveCuesFollowCuesAndTime ==
    \A t \in Tracks :
        (call.op = "activeCues" /\ call.t = t /\ loaded_[t])
        => ( /\ ret = "view"
             /\ activeCues[t] = ExpectedActive(cues[t], ct) )

(***************************************************************************)
(* The loader's polling and the order of cues.                             *)
(***************************************************************************)
\* the cues the parser emits for each track's file, in the order it emits them
EmittedCues(t) == IF t = "A" THEN <<"q1">> ELSE <<"p2", "p1">>

\* C16: after a successful fetch, while WebVTT is missing exactly one retry
\* timer is pending and the loader adds no cue; a poll that finds WebVTT parses
\* the payload, once, and arms no further timer; a poll that does not find it
\* arms one timer again and leaves the track loaded with its cues as they were.
C16_PollingUntilParserAvailable ==
    /\ [](\A t \in Tracks :
            /\ xhr[t] # "ok" => (timers[t] = 0 /\ parsed[t] = 0)
            /\ (xhr[t] = "ok" /\ parsed[t] = 0) => (timers[t] = 1 /\ loaded_[t])
            /\ parsed[t] <= 1
            /\ parsed[t] = 1 => timers[t] = 0)
    /\ [][\A t \in Tracks :
            /\ (call'.op = "fetchOk" /\ call'.t = t /\ ~webvtt)
                  => (cues_' = cues_ /\ cues' = cues /\ parsed'[t] = 0)
            /\ (call'.op = "poll" /\ call'.t = t /\ ~webvtt)
                  => ( /\ cues_' = cues_ /\ cues' = cues
                       /\ parsed'[t] = 0 /\ timers'[t] = 1 /\ loaded_'[t] )
            /\ (call'.op = "poll" /\ call'.t = t /\ webvtt)
                  => ( /\ parsed[t] = 0 /\ parsed'[t] = 1 /\ timers'[t] = 0
                       /\ cues_'[t] = cues_[t] \o EmittedCues(t) )]_vars

\* a poll found WebVTT and parsed the file of track B
C16_Witness ==
    /\ call.op = "poll" /\ call.t = "B"
    /\ xhr["B"] = "ok" /\ parsed["B"] = 1 /\ timers["B"] = 0
    /\ cues["B"] = <<"p2", "p1">>

\* C17: the cues the parser emits are appended to the track's cues in the
\* order emitted, a parsing error between two of them is logged and the later
\* cue still appended; every addCue that returns appends its cue at the end,
\* whatever the cue's times.
C17_CuesInArrivalOrder ==
    [][\A t \in Tracks :
          /\ parsed'[t] = parsed[t] + 1
                => ( /\ cues_'[t] = cues_[t] \o EmittedCues(t)
                     /\ cues'[t] = cues_'[t]
                     /\ logged' = 1 )
          /\ (call'.op = "addCue" /\ call'.t = t /\ ~threw')
                => ( /\ cues_'[t] = Append(cues_[t], call'.arg)
                     /\ cues'[t] = cues_'[t] )]_vars

\* the parse of track B's file, whose second cue starts before its first and
\* follows a parsing error, after a cue with a later start was added
C17_Witness ==
    /\ call.op \in {"fetchOk", "poll"} /\ call.t = "B"
    /\ parsed["B"] = 1
    /\ logged = 1
    /\ cues_["B"] = <<"c2", "p2", "p1">>

\* C18: every addCue, and every removeCue that changes the backing sequence,
\* completes without error and refreshes the view, so that on a loaded track
\* the view of cues is the backing sequence; also for an addCue made on a
\* track built with src before its fetch has completed.
C18_ViewIsBackingSequence ==
    /\ call.op \in {"addCue", "removeCue"} => ~threw
    /\ \A t \in Tracks : loaded_[t] => cues[t] = cues_[t]

\* the sequence s without cue c
Without(s, c) == SelectSeq(s, LAMBDA e : e # c)

\* C20: addCue(c) on a track leaves, in that track and in every sibling, the
\* cues other than c in the backing sequence and in their order, and leaves
\* mode, loaded_ and the subscriptions of every track as they were.
C20_AddCueTouchesOnlyItsCue ==
    [][call'.op = "addCue"
          => ( /\ \A t \in Tracks :
                     Without(cues_'[t], call'.arg) = Without(cues_[t], call'.arg)
               /\ mode' = mode
               /\ loaded_' = loaded_
               /\ subs' = subs )]_vars

\* addCue(c1) on A took c1 out of sibling B, which keeps c2 ahead of the second
\* of its two adjacent entries of c1
C20_Witness ==
    /\ call = Call("addCue", "A", "c1")
    /\ ~threw
    /\ cues_["B"] = <<"c2", "c1">>
    /\ cues_["A"] # << >>

(***************************************************************************)
(* Construction and subscriptions.                                         *)
(***************************************************************************)
\* C14: after construction mode is the requested mode when that is disabled,
\* hidden or showing and disabled otherwise, except that kind chapters or
\* metadata makes it hidden; the track is subscribed to timeupdate exactly
\* when that mode is not disabled.
C14_InitialModeAndSubscription ==
    call.op = "new" =>
        \A t \in Tracks :
            /\ mode[t] = IF opts[t].kind \in {"chapters", "metadata"} THEN "hidden"
                         ELSE IF opts[t].mode \in {"disabled", "hidden", "showing"}
                              THEN opts[t].mode
                              ELSE "disabled"
            /\ subs[t] = IF mode[t] = "disabled" THEN 0 ELSE 1

\* a chapters track asked to be disabled beside a subtitles track given an
\* unknown mode, both just built
C14_Witness ==
    /\ call.op = "new"
    /\ opts["A"].kind = "chapters" /\ opts["A"].mode = "disabled"
    /\ mode["A"] = "hidden" /\ subs["A"] = 1
    /\ opts["B"].kind = "subtitles" /\ opts["B"].mode = "invalid-value"
    /\ mode["B"] = "disabled" /\ subs["B"] = 0

(***************************************************************************)
(* The change flag and the timeupdate event, under SpecTick.               *)
(***************************************************************************)

\* C11: whenever a read of activeCues has left the change flag of a
\* subscribed track set, the next timeupdate emits cuechange on that track
\* exactly once and clears the flag.
C11_FlaggedChangeIsNotified ==
    [][\A t \in Tracks :
          (call'.op = "timeupdate" /\ subs[t] >= 1 /\ changed[t])
              => (emitted'[t].cuechange = 1 /\ ~changed'[t])]_vars

\* C12: a read of activeCues that follows another read of the same track
\* (by a caller or by the track's timeupdate handler) with no call in
\* between returns the same cues and does not raise the change flag.
C12_SecondReadFindsNoChange ==
    [][\A t \in Tracks :
          ( /\ \/ call.op = "activeCues" /\ call.t = t
               \/ call.op = "timeupdate" /\ subs[t] >= 1
            /\ call'.op = "activeCues" /\ call'.t = t )
              => ( /\ activeCues'[t] = activeCues[t]
                   /\ changed'[t] => changed[t] )]_vars

C12_Witness ==
    /\ call.op = "activeCues" /\ call.t = "A"
    /\ ret = "view"
    /\ activeCues["A"] = <<"c1">>
    /\ activeCues_["A"] = <<"c1">>
    /\ ~changed["A"]
    /\ subs["A"] = 0

\* C13 as the specification states it: a read that reaches the comparison
\* sets the change flag exactly when the set of active cues differs from
\* the stored one, and a timeupdate emits cuechange only for such a
\* difference.
C13_ChangedIffSetDiffers ==
    [][\A t \in Tracks :
          /\ (call'.op = "activeCues" /\ call'.t = t /\ Len(cues[t]) > 0)
                 => changed'[t] =
                        (Range(activeCues'[t]) # Range(activeCues_[t]))
          /\ (call'.op = "timeupdate" /\ emitted'[t].cuechange >= 1)
                 => \/ changed[t]
                    \/ Range(ActiveAt(cues[t], ct)) # Range(activeCues_[t])]_vars

\* C15: a write of mode adds one subscription to the written track exactly
\* when the written value is "showing", whatever the mode was; no other
\* call changes a subscription count, and no count ever decreases.
C15_SubscribeOnShowingWrite ==
    [][\A t \in Tracks :
          /\ (call'.op = "setMode" /\ call'.t = t)
                 => subs'[t] = subs[t] + (IF call'.arg = "showing" THEN 1 ELSE 0)
          /\ ~(call'.op = "setMode" /\ call'.t = t) => subs'[t] = subs[t]
          /\ subs'[t] >= subs[t]]_vars

\* a track built showing that was written "showing" again
C15_Witness ==
    /\ call.op = "setMode" /\ call.t = "A" /\ call.arg = "showing"
    /\ call.was = "showing"
    /\ opts["A"].mode = "showing"
    /\ subs["A"] = 2

\* C19: one timeupdate emits cuechange at most once on each track, however
\* many subscriptions the track holds.
C19_OneCuechangePerTick ==
    call.op = "timeupdate" => \A t \in Tracks : emitted[t].cuechange <= 1

C19_Witness ==
    /\ call.op = "timeupdate"
    /\ subs["A"] >= 2
    /\ emitted["A"].cuechange = 1

=============================================================================
